---- MODULE Spec2Model ----
(***************************************************************************)
(* The process supervisor engine of ncd (src/ncd/ncd.c): the per-process   *)
(* two-pointer state machine (AP / FP), the work / fight / advance / wait  *)
(* / retreat control loop, the module-instance callbacks and the global    *)
(* termination sequence.  Every action is one reactor callback (or one     *)
(* step of main) executed to completion.                                   *)
(***************************************************************************)
EXTENDS Integers, Sequences, FiniteSets, TLC

\* ---------------------------------------------------------------- bounds
\* largest number of statements in the configuration, over all its processes
MaxStatements == 2

\* ------------------------------------------------------ program constants
SSTATE_CHILD == 1
SSTATE_ADULT == 2
SSTATE_DYING == 3
SSTATE_FORGOTTEN == 4

\* retry delay, in clock ticks (one tick is half the configured delay)
RETRY_TIME == 2

NCDMODULE_EVENT_UP == "UP"
NCDMODULE_EVENT_DOWN == "DOWN"
NCDMODULE_EVENT_DYING == "DYING"

\* a statement without an exported name (s->name == NULL)
NoName == "-"
\* exported names and referred-to names usable in a configuration
Names == {"a"}

\* the BTimer is not in the reactor's timer set
TimerIdle == -1

VARIABLES
    configuration,  \* parsed config: per entry, the sequence of statement templates
    pc,             \* main: index of the next configuration entry to construct
    reactor,        \* main: "init" (before BReactor_Exec), "exec", "quit", "exited"
    terminating,    \* int terminating
    processes,      \* LinkedList2 processes: the ids of the linked processes, in order
    proc,           \* struct process, per id
    ev,             \* history: the callback that ran last
    calls,          \* history: module calls (Init / Die / GetVar) made by that callback
    viol,           \* history: labels of the ASSERTs that have failed
    ups,            \* history: per process, live slots in the order of their first UP
    midDied,        \* history: per process, slots whose instance died below a live one
    scen            \* history: the mid-stack episodes in progress (DOWN per process, S4)

vars == <<configuration, pc, reactor, terminating, processes, proc,
          ev, calls, viol, ups, midDied, scen>>

\* main is started on a configuration of two entries; process_new fails for
\* an entry with an unknown module, so zero, one or two processes are linked
Procs == {1, 2}

\* ------------------------------------------------------------ data model
\* struct statement: exported name and the argument list; an argument is
\* either a literal value or a variable reference modname.varname
VarArg(n) == [is_var |-> TRUE, modname |-> n]
\* the statement templates configurations are built from: a named statement
\* without arguments and an unnamed statement referring to each name; known
\* tells whether the statement's module type is in ncd_modules
Statement == {[name |-> n, args |-> <<>>, known |-> TRUE] : n \in Names}
             \cup {[name |-> NoName, args |-> <<VarArg(n)>>, known |-> TRUE] : n \in Names}
\* a statement of a module type that does not exist
UnknownModule == [name |-> NoName, args |-> <<>>, known |-> FALSE]

\* the configurations main may be started with
StatementLists == UNION {[1..n -> Statement] : n \in 0..MaxStatements}
                  \cup {<<UnknownModule>>}
Configurations == {c \in [Procs -> StatementLists] : Len(c[1]) + Len(c[2]) <= MaxStatements}

\* Time is kept relative to the clock: error_until and an armed wait_timer
\* hold deadline - btime_gettime(), the ticks left until the deadline, and 0
\* once the deadline has passed.  The program reads the clock only to add
\* RETRY_TIME to it (line 962) and to compare a deadline with it (line 799,
\* the reactor's timer expiry), so nothing else of the clock is observable.
\*
\* struct process_statement as process_new leaves it (lines 629-642);
\* inst records whether an NCDModuleInst exists ("none", "live") and whether
\* NCDModuleInst_Die was called on it ("ordered"); since_error is history:
\* the ticks since the statement last recorded an error, counted up to
\* RETRY_TIME (which it also is when no error was recorded)
NewStatement(s) == [s |-> s, state |-> SSTATE_FORGOTTEN, have_error |-> FALSE,
                    error_until |-> 0, inst |-> "none", since_error |-> RETRY_TIME]

\* a struct process that is not allocated (before process_new, after free)
NoProcess == [num_statements |-> 0, statements |-> <<>>, ap |-> 0, fp |-> 0,
              wait_timer |-> TimerIdle]

\* the slot array is indexed from 0 as in the source
Slots(P) == 0..(P.num_statements - 1)
St(P, i) == P.statements[i].state

\* ------------------------------------------------- threaded callback state
\* A callback runs to completion on a world w: the process structs, the
\* process list, the reactor's quit flag, the module calls made so far and
\* the ASSERTs that failed.
World == [proc |-> proc, processes |-> processes, terminating |-> terminating,
          quit |-> (reactor = "quit"), calls |-> <<>>, viol |-> viol]

\* ASSERT(cond)
Check(w, cond, label) == IF cond THEN w ELSE [w EXCEPT !.viol = @ \cup {label}]

\* a call into a module instance on behalf of statement k, with the slot
\* states, the instance of slot i and the age of statement k's last error
\* at the moment of the call; modname is the name a variable reference
\* looks for
CallFor(w, op, p, i, k, modname) ==
    [w EXCEPT !.calls = Append(@, [op |-> op, p |-> p, i |-> i, k |-> k,
        modname |-> modname,
        inst |-> w.proc[p].statements[i].inst,
        age |-> w.proc[p].statements[k].since_error,
        states |-> [j \in Slots(w.proc[p]) |-> St(w.proc[p], j)]])]

Call(w, op, p, i) == CallFor(w, op, p, i, i, NoName)

RemoveFromList(s, p) == SelectSeq(s, LAMBDA x : x # p)

SetStatement(w, p, i, ps) == [w EXCEPT !.proc[p].statements[i] = ps]

\* ---------------------------------------------------------------- process
\* process_free: unlink, remove the timer, free the struct
process_free(w, p) ==
    LET P == w.proc[p]
        w1 == Check(Check(w, P.ap = 0, "free_ap"), P.fp = 0, "free_fp")
    IN [w1 EXCEPT !.processes = RemoveFromList(@, p), !.proc[p] = NoProcess]

\* the loop of lines 723-725 and 1042-1044: drop the FORGOTTEN tail
RECURSIVE SkipForgotten(_, _)
SkipForgotten(P, fp) ==
    IF fp > 0 /\ St(P, fp - 1) = SSTATE_FORGOTTEN THEN SkipForgotten(P, fp - 1) ELSE fp

\* process_assert_pointers: the ASSERTs of lines 708-726
PointersOk(P) ==
    /\ P.ap <= P.num_statements
    /\ P.fp >= P.ap
    /\ P.fp <= P.num_statements
    /\ \A i \in 0..(P.ap - 1) :
          IF i = P.ap - 1
          THEN St(P, i) = SSTATE_ADULT \/ St(P, i) = SSTATE_CHILD
          ELSE St(P, i) = SSTATE_ADULT
    /\ P.fp = SkipForgotten(P, P.num_statements)

process_assert_pointers(w, p) == Check(w, PointersOk(w.proc[p]), "pointers")

process_assert(w, p) == process_assert_pointers(w, p)

\* process_statement_set_error
process_statement_set_error(w, p, i) ==
    LET ps == w.proc[p].statements[i]
        w1 == Check(w, ps.state = SSTATE_FORGOTTEN, "set_error_forgotten")
    IN SetStatement(w1, p, i,
          [ps EXCEPT !.have_error = TRUE, !.error_until = RETRY_TIME,
                     !.since_error = 0])

\* the four ASSERTs shared by process_wait and process_wait_timer_handler
WaitingOk(P) ==
    /\ P.ap = P.fp
    /\ ~(P.ap > 0) \/ St(P, P.ap - 1) = SSTATE_ADULT
    /\ P.ap < P.num_statements
    /\ P.statements[P.ap].have_error

\* process_wait: arm the timer at the statement's error_until
process_wait(w, p) ==
    LET P == w.proc[p]
        w1 == Check(w, WaitingOk(P), "wait_pre")
        w2 == [w1 EXCEPT !.proc[p].wait_timer = P.statements[P.ap].error_until]
    IN process_assert(w2, p)

\* the loop of lines 818-823: the largest i in 1..from whose statement i-1
\* has a name equal to modname, 0 if there is none
RECURSIVE FindReferred_first(_, _, _)
FindReferred_first(P, from, modname) ==
    IF from = 0 THEN 0
    ELSE LET below == FindReferred_first(P, from - 1, modname)
         IN IF below # 0 THEN below
            ELSE IF P.statements[from - 1].s.name # NoName
                    /\ P.statements[from - 1].s.name = modname
                 THEN from ELSE 0

RECURSIVE FindReferred(_, _, _)
FindReferred(P, from, modname) ==
    IF from = 0 THEN 0
    ELSE IF P.statements[from - 1].s.name # NoName
            /\ P.statements[from - 1].s.name = modname
         THEN from
         ELSE FindReferred(P, from - 1, modname)

\* the argument loop of lines 810-851, from argument k on; res = "fail_args"
\* makes the first GetVar / InitCopy / ListAppend fail
RECURSIVE BuildArgs(_, _, _, _)
BuildArgs(w, p, k, res) ==
    LET P == w.proc[p]
        args == P.statements[P.ap].s.args
    IN IF k > Len(args) THEN [w |-> w, ok |-> TRUE]
       ELSE IF args[k].is_var
       THEN LET i == FindReferred(P, P.ap, args[k].modname)
            IN IF i = 0
               THEN [w |-> CallFor(w, "Unresolved", p, P.ap, P.ap, args[k].modname),
                     ok |-> FALSE]
               ELSE LET w1 == Check(w, St(P, i - 1) = SSTATE_ADULT, "getvar_adult")
                        w2 == CallFor(w1, "GetVar", p, i - 1, P.ap, args[k].modname)
                    IN IF res = "fail_args" THEN [w |-> w2, ok |-> FALSE]
                       ELSE BuildArgs(w2, p, k + 1, res)
       ELSE IF res = "fail_args" THEN [w |-> w, ok |-> FALSE]
            ELSE BuildArgs(w, p, k + 1, res)

AdvanceResults == {"ok", "fail_args", "fail_init"}

\* process_advance, lines 865-872: the instance of slot k was initialized
AdvanceCommit_no_fp(w, p, k) ==
    [w EXCEPT !.proc[p].statements[k].state = SSTATE_CHILD,
              !.proc[p].statements[k].inst = "live",
              !.proc[p].ap = @ + 1]

AdvanceCommit_no_state(w, p, k) ==
    [w EXCEPT !.proc[p].statements[k].inst = "live",
              !.proc[p].ap = @ + 1,
              !.proc[p].fp = @ + 1]

AdvanceCommit(w, p, k) ==
    [w EXCEPT !.proc[p].statements[k].state = SSTATE_CHILD,
              !.proc[p].statements[k].inst = "live",
              !.proc[p].ap = @ + 1,
              !.proc[p].fp = @ + 1]

\* process_advance, line 799: "check if we need to wait"
AdvanceMustWait_never(ps) == FALSE

AdvanceMustWait(ps) == ps.have_error /\ ps.error_until > 0

\* process_advance; res is what the module and the allocator answer
process_advance(w, p, res) ==
    LET P == w.proc[p]
        w1 == Check(Check(w, P.ap = P.fp, "advance_ap_fp"),
                    ~(P.ap > 0) \/ St(P, P.ap - 1) = SSTATE_ADULT, "advance_adult")
    IN IF P.ap = P.num_statements THEN process_assert(w1, p)
       ELSE LET ps == P.statements[P.ap] IN
         IF AdvanceMustWait(ps) THEN process_wait(w1, p)
         ELSE LET b == BuildArgs(w1, p, 1, res)
                  w2 == IF b.ok THEN Call(b.w, "Init", p, P.ap) ELSE b.w
              IN IF b.ok /\ res # "fail_init"
                 THEN process_assert(AdvanceCommit(w2, p, P.ap), p)
                 ELSE process_wait(process_statement_set_error(w2, p, P.ap), p)

\* NCDModuleInst_Die on slot i and "set statement state DYING"
\* (lines 775-778, 934-937)
OrderToDie(w, p, i) ==
    LET w1 == Call(w, "Die", p, i)
    IN [w1 EXCEPT !.proc[p].statements[i].state = SSTATE_DYING,
                  !.proc[p].statements[i].inst = "ordered"]

\* process_fight, lines 769-781: order the last living statement to die
FightKill_lowest(w, p) ==
    LET P == w.proc[p]
    IN process_assert(
         IF St(P, P.fp - 1) # SSTATE_DYING THEN OrderToDie(w, p, P.ap) ELSE w, p)

FightKill_always(w, p) ==
    process_assert(OrderToDie(w, p, w.proc[p].fp - 1), p)

FightKill(w, p) ==
    LET P == w.proc[p]
    IN process_assert(
         IF St(P, P.fp - 1) # SSTATE_DYING THEN OrderToDie(w, p, P.fp - 1) ELSE w, p)

\* process_fight, line 761: advance unless the statement below AP is a CHILD
FightMayAdvance_never(P) == FALSE

FightMayAdvance_always(P) == TRUE

FightMayAdvance(P) == ~(P.ap > 0 /\ St(P, P.ap - 1) = SSTATE_CHILD)

\* process_fight
process_fight(w, p, res) ==
    LET P == w.proc[p]
    IN IF P.ap = P.fp
       THEN IF FightMayAdvance(P) THEN process_advance(w, p, res) ELSE w
       ELSE FightKill(w, p)

\* process_retreat, lines 939-942: update AP after ordering slot i to die
RetreatUpdateAp_skip(w, p, i) == w

RetreatUpdateAp(w, p, i) ==
    IF w.proc[p].ap > i THEN [w EXCEPT !.proc[p].ap = i] ELSE w

\* process_retreat, lines 928-945: order the last living statement to die
RetreatKill_none(w, p) == process_assert(w, p)

RetreatKill_head(w, p) ==
    LET P == w.proc[p]
        i == CHOOSE j \in Slots(P) :
               /\ St(P, j) # SSTATE_FORGOTTEN
               /\ \A k \in Slots(P) : k < j => St(P, k) = SSTATE_FORGOTTEN
    IN process_assert(
         IF St(P, i) # SSTATE_DYING
         THEN RetreatUpdateAp(OrderToDie(w, p, i), p, i) ELSE w, p)

RetreatKill(w, p) ==
    LET P == w.proc[p]
    IN process_assert(
         IF St(P, P.fp - 1) # SSTATE_DYING
         THEN RetreatUpdateAp(OrderToDie(w, p, P.fp - 1), p, P.fp - 1) ELSE w, p)

\* process_retreat
process_retreat_quit_early(w, p) ==
    LET P == w.proc[p]
    IN IF P.fp = 0
       THEN [process_free(w, p) EXCEPT !.quit = TRUE]
       ELSE RetreatKill(w, p)

process_retreat_on_ap(w, p) ==
    LET P == w.proc[p]
    IN IF P.ap = 0
       THEN LET w1 == process_free(w, p)
            IN IF w1.processes = <<>> THEN [w1 EXCEPT !.quit = TRUE] ELSE w1
       ELSE RetreatKill(w, p)

process_retreat_keep_empty(w, p) ==
    LET P == w.proc[p]
    IN IF P.fp = 0 THEN w ELSE RetreatKill(w, p)

process_retreat(w, p) ==
    LET P == w.proc[p]
    IN IF P.fp = 0
       THEN LET w1 == process_free(w, p)
            IN IF w1.processes = <<>> THEN [w1 EXCEPT !.quit = TRUE] ELSE w1
       ELSE RetreatKill(w, p)

\* process_work, line 748: BReactor_RemoveTimer
WorkStopTimer_skip(w, p) == w

WorkStopTimer(w, p) == [w EXCEPT !.proc[p].wait_timer = TimerIdle]

\* process_work
process_work_always_fight(w, p, res) ==
    process_fight(WorkStopTimer(process_assert_pointers(w, p), p), p, res)

process_work(w, p, res) ==
    LET w1 == process_assert_pointers(w, p)
        w2 == WorkStopTimer(w1, p)
    IN IF w2.terminating THEN process_retreat(w2, p) ELSE process_fight(w2, p, res)

\* statement_init: fails when no module has the statement's type (line 497)
statement_init(s) == s.known

\* process_new for configuration entry p (the allocations succeeding): a
\* statement that cannot be initialized frees the process before it is linked
process_new(w, p, conf, res) ==
    LET P == [num_statements |-> Len(conf),
              statements |-> [i \in 0..(Len(conf) - 1) |-> NewStatement(conf[i + 1])],
              ap |-> 0, fp |-> 0, wait_timer |-> TimerIdle]
        w1 == [w EXCEPT !.proc[p] = P, !.processes = Append(@, p)]
    IN IF \A k \in DOMAIN conf : statement_init(conf[k])
       THEN process_work(w1, p, res)
       ELSE w

\* process_wait_timer_handler
process_wait_timer_handler_no_advance(w, p, res) ==
    [Check(w, WaitingOk(w.proc[p]), "timer_pre")
       EXCEPT !.proc[p].statements[w.proc[p].ap].have_error = FALSE]

process_wait_timer_handler(w, p, res) ==
    LET P == w.proc[p]
        w1 == Check(w, WaitingOk(P), "timer_pre")
        w2 == [w1 EXCEPT !.proc[p].statements[P.ap].have_error = FALSE]
    IN process_advance(w2, p, res)

\* the "update AP" blocks of the handlers (lines 989-992, 1003-1006,
\* 1036-1039): AP is lowered to bound when it is above it
UpdateAp(w, p, bound) ==
    IF w.proc[p].ap > bound THEN [w EXCEPT !.proc[p].ap = bound] ELSE w

\* case NCDMODULE_EVENT_DOWN, lines 981-993
EventDown_keep_ap(w, p, i) ==
    [Check(w, St(w.proc[p], i) = SSTATE_ADULT, "down_pre")
       EXCEPT !.proc[p].statements[i].state = SSTATE_CHILD]

EventDown_clamp_low(w, p, i) ==
    UpdateAp([Check(w, St(w.proc[p], i) = SSTATE_ADULT, "down_pre")
                EXCEPT !.proc[p].statements[i].state = SSTATE_CHILD], p, i)

EventDown(w, p, i) ==
    UpdateAp([Check(w, St(w.proc[p], i) = SSTATE_ADULT, "down_pre")
                EXCEPT !.proc[p].statements[i].state = SSTATE_CHILD], p, i + 1)

\* case NCDMODULE_EVENT_DYING, lines 995-1007
EventDying_keep_ap(w, p, i) == [w EXCEPT !.proc[p].statements[i].state = SSTATE_DYING]

EventDying(w, p, i) ==
    UpdateAp([w EXCEPT !.proc[p].statements[i].state = SSTATE_DYING], p, i)

\* process_statement_instance_handler_event
process_statement_instance_handler_event_no_work(w, p, i, event, res) ==
    LET s == St(w.proc[p], i)
        w1 == Check(w, s = SSTATE_CHILD \/ s = SSTATE_ADULT, "event_pre")
    IN CASE event = NCDMODULE_EVENT_UP ->
                 process_work([Check(w1, s = SSTATE_CHILD, "up_pre")
                    EXCEPT !.proc[p].statements[i].state = SSTATE_ADULT], p, res)
            [] event = NCDMODULE_EVENT_DOWN -> EventDown(w1, p, i)
            [] event = NCDMODULE_EVENT_DYING -> process_work(EventDying(w1, p, i), p, res)

process_statement_instance_handler_event(w, p, i, event, res) ==
    LET P == w.proc[p]
        s == St(P, i)
        w1 == Check(w, s = SSTATE_CHILD \/ s = SSTATE_ADULT, "event_pre")
        w2 == CASE event = NCDMODULE_EVENT_UP ->
                     [Check(w1, s = SSTATE_CHILD, "up_pre")
                        EXCEPT !.proc[p].statements[i].state = SSTATE_ADULT]
                [] event = NCDMODULE_EVENT_DOWN -> EventDown(w1, p, i)
                [] event = NCDMODULE_EVENT_DYING -> EventDying(w1, p, i)
    IN process_work(w2, p, res)

\* process_statement_instance_handler_died, lines 1036-1039: update AP
DiedUpdateAp_skip(w, p, i) == w

DiedUpdateAp(w, p, i) == UpdateAp(w, p, i)

\* process_statement_instance_handler_died, lines 1041-1044: update FP
DiedUpdateFp_decrement(w, p) == [w EXCEPT !.proc[p].fp = @ - 1]

DiedUpdateFp(w, p) == [w EXCEPT !.proc[p].fp = SkipForgotten(w.proc[p], @)]

\* process_statement_instance_handler_died
process_statement_instance_handler_died(w, p, i, is_error, res) ==
    LET s == St(w.proc[p], i)
        w1 == Check(w, s = SSTATE_CHILD \/ s = SSTATE_ADULT \/ s = SSTATE_DYING,
                    "died_pre")
        w2 == [w1 EXCEPT !.proc[p].statements[i].state = SSTATE_FORGOTTEN,
                         !.proc[p].statements[i].inst = "none"]
        w3 == IF is_error THEN process_statement_set_error(w2, p, i)
              ELSE [w2 EXCEPT !.proc[p].statements[i].have_error = FALSE]
        w4 == DiedUpdateAp(w3, p, i)
        w5 == DiedUpdateFp(w4, p)
    IN process_work(w5, p, res)

\* the loop of terminate (lines 320-326) over the list as it was at the signal
RECURSIVE WorkAll(_, _, _)
WorkAll(w, list, k) ==
    IF k > Len(list) THEN w
    ELSE WorkAll(process_work(w, list[k], "ok"), list, k + 1)

\* terminate
terminate(w) ==
    LET w1 == [Check(w, ~w.terminating, "terminate_pre") EXCEPT !.terminating = TRUE]
    IN IF w1.processes = <<>> THEN [w1 EXCEPT !.quit = TRUE]
       ELSE WorkAll(w1, w1.processes, 1)

\* signal_handler
signal_handler_unguarded(w) == terminate(w)

signal_handler(w) == IF ~w.terminating THEN terminate(w) ELSE w

\* the cleanup loop of main (lines 279-283)
RECURSIVE FreeAll(_)
FreeAll(w) == IF w.processes = <<>> THEN w ELSE FreeAll(process_free(w, Head(w.processes)))

\* ------------------------------------------------------------- transitions
Range(f) == {f[x] : x \in DOMAIN f}
InList(p) == p \in Range(processes)

NoEvent == [kind |-> "none", p |-> 0, i |-> -1, arg |-> "", ordered |-> FALSE,
            upped |-> FALSE, tail |-> FALSE, last |-> FALSE]
Event(kind, p, i, arg) == [NoEvent EXCEPT !.kind = kind, !.p = p, !.i = i, !.arg = arg]

\* holes of a process after a callback: the slots recorded in h that are
\* still FORGOTTEN below FP (a hole ends when FP falls to it)
Holes(w, p, h) ==
    {j \in h : /\ j \in Slots(w.proc[p])
               /\ j < w.proc[p].fp
               /\ St(w.proc[p], j) = SSTATE_FORGOTTEN}

\* the state a callback leaves behind
Commit(w, e) ==
    /\ proc' = w.proc
    /\ processes' = w.processes
    /\ terminating' = w.terminating
    /\ reactor' = IF w.quit THEN "quit" ELSE reactor
    /\ calls' = w.calls
    /\ viol' = w.viol
    /\ ev' = e
    /\ UNCHANGED configuration

\* what the modules and the allocator may answer to the callback's advance;
\* while terminating process_work never reaches process_advance
Answers == IF terminating THEN {"ok"} ELSE AdvanceResults

\* the process [A, B, C] of the end-to-end scenarios: A exports "a", B
\* takes a variable of A as its argument, C has no arguments
ABC == <<[name |-> "a", args |-> <<>>, known |-> TRUE],
         [name |-> NoName, args |-> <<VarArg("a")>>, known |-> TRUE],
         [name |-> "a", args |-> <<>>, known |-> TRUE]>>

\* history of the mid-stack episodes.  drain[p] = [n, k]: slot n of process p
\* emitted DOWN while the slots n+1..k above it, up to the last one, were
\* ADULT, and since then no slot at or below n emitted DOWN, DYING or died
\* and slot n+1 was not initialized again (n = -1: no such episode).
\* s4 = [p, stage]: process p = [A, B, C] follows scenario S4; stage 1 after
\* B.dying with all three ADULT, 2 after C.died, 3 after B.died, 4 after
\* B.up, 5 after C.up, with clean deaths and successful Inits, and no other
\* callback in between (stage 0: not in the scenario).
NoDrain == [n |-> -1, k |-> -1]
NoScen == [drain |-> [p \in Procs |-> NoDrain], s4 |-> [p |-> 0, stage |-> 0]]

\* an attempt to initialize slot k of process p is among the module calls cs
Attempted(cs, p, k) ==
    \E n \in DOMAIN cs : cs[n].p = p /\ cs[n].k = k
                          /\ cs[n].op \in {"Init", "GetVar", "Unresolved"}

\* slots i+1..fp-1 of P are all ADULT, and there is at least one
AdultAbove(P, i) ==
    /\ P.fp - 1 > i
    /\ \A j \in (i + 1)..(P.fp - 1) : St(P, j) = SSTATE_ADULT

\* drain[q] after the callback (kind, p, i, arg) that leaves the world w
DrainAfter(q, kind, p, i, arg, w) ==
    LET d == scen.drain[q] IN
    IF q \notin Range(w.processes) THEN NoDrain
    ELSE IF d.n >= 0 /\ Attempted(calls, q, d.n + 1) THEN NoDrain
    ELSE IF q # p THEN d
    ELSE IF kind = "event" /\ arg = NCDMODULE_EVENT_DOWN /\ ~terminating
            /\ AdultAbove(proc[p], i)
         THEN [n |-> i, k |-> proc[p].fp - 1]
    ELSE IF d.n < 0 THEN d
    ELSE IF i <= d.n /\ (kind = "died" \/ (kind = "event" /\ arg # NCDMODULE_EVENT_UP))
         THEN NoDrain
    ELSE d

\* s4 after the callback (kind, p, i, arg) answered res
S4After(kind, p, i, arg, res) ==
    LET g == scen.s4
        next(n) == [p |-> p, stage |-> n]
    IN IF kind = "event" /\ arg = NCDMODULE_EVENT_DYING /\ i = 1 /\ ~terminating
          /\ configuration[p] = ABC /\ proc[p].fp = 3 /\ AdultAbove(proc[p], -1)
       THEN next(1)
       ELSE IF g.stage = 0 \/ g.p # p THEN g
       ELSE IF g.stage = 1 /\ kind = "died" /\ i = 2 /\ arg = "clean" THEN next(2)
       ELSE IF g.stage = 2 /\ kind = "died" /\ i = 1 /\ arg = "clean" /\ res = "ok"
            THEN next(3)
       ELSE IF g.stage = 3 /\ kind = "event" /\ arg = NCDMODULE_EVENT_UP /\ i = 1
               /\ res = "ok" THEN next(4)
       ELSE IF g.stage = 4 /\ kind = "event" /\ arg = NCDMODULE_EVENT_UP /\ i = 2
            THEN next(5)
       ELSE NoScen.s4

ScenAfter(kind, p, i, arg, res, w) ==
    [drain |-> [q \in Procs |-> DrainAfter(q, kind, p, i, arg, w)],
     s4 |-> IF kind = "signal" THEN NoScen.s4 ELSE S4After(kind, p, i, arg, res)]

\* the state main is in before it constructs the first process, on a
\* configuration of the set C
InitOn(C) ==
    /\ configuration \in C
    /\ pc = 1
    /\ reactor = "init"
    /\ terminating = FALSE
    /\ processes = <<>>
    /\ proc = [p \in Procs |-> NoProcess]
    /\ ev = NoEvent
    /\ calls = <<>>
    /\ viol = {}
    /\ ups = [p \in Procs |-> <<>>]
    /\ midDied = [p \in Procs |-> {}]
    /\ scen = NoScen

Init == InitOn(Configurations)

\* main, lines 268-272: one iteration of the loop over the configuration,
\* the modules and the allocator answering with one of R
ProcessNewAnswering(R) ==
    /\ reactor = "init"
    /\ pc \in Procs
    /\ \E res \in R :
         Commit(process_new(World, pc, configuration[pc], res), Event("new", pc, -1, ""))
    /\ pc' = pc + 1
    /\ UNCHANGED <<ups, midDied, scen>>

ProcessNew == ProcessNewAnswering(AdvanceResults)

\* main, line 276: BReactor_Exec
EnterLoop ==
    /\ reactor = "init"
    /\ pc \notin Procs
    /\ reactor' = "exec"
    /\ UNCHANGED <<configuration, pc, terminating, processes, proc,
                   ev, calls, viol, ups, midDied, scen>>

\* one tick of the clock on a relative deadline
Elapse(t) == IF t > 0 THEN t - 1 ELSE t

\* the clock advances by one tick between callbacks
Tick ==
    /\ reactor = "exec"
    /\ proc' = [p \in Procs |->
                 [proc[p] EXCEPT
                    !.wait_timer = Elapse(@),
                    !.statements = [i \in Slots(proc[p]) |->
                        [proc[p].statements[i] EXCEPT
                            !.error_until = Elapse(@),
                            !.since_error = IF @ < RETRY_TIME THEN @ + 1 ELSE @]]]]
    /\ UNCHANGED <<configuration, pc, reactor, terminating, processes,
                   ev, calls, viol, ups, midDied, scen>>

\* the reactor delivers a termination signal
Signal ==
    /\ reactor = "exec"
    /\ LET w == signal_handler(World)
       IN /\ Commit(w, Event("signal", 0, -1, IF terminating THEN "again" ELSE "first"))
          /\ scen' = ScenAfter("signal", 0, -1, "", "ok", w)
    /\ UNCHANGED <<pc, ups, midDied>>

\* the reactor fires the wait timer of process p
TimerFire(p) ==
    /\ reactor = "exec"
    /\ InList(p)
    /\ proc[p].wait_timer # TimerIdle
    /\ proc[p].wait_timer = 0
    /\ \E res \in Answers :
         LET w == process_wait_timer_handler(
                     [World EXCEPT !.proc[p].wait_timer = TimerIdle], p, res)
         IN /\ Commit(w, Event("timer", p, proc[p].ap, ""))
            /\ midDied' = [midDied EXCEPT ![p] = Holes(w, p, @)]
            /\ scen' = ScenAfter("timer", p, proc[p].ap, "", res, w)
    /\ UNCHANGED <<pc, ups>>

\* events a module instance may deliver: what the handler's ASSERTs require
\* of the slot state (lines 967, 973, 982, 996)
MayEmit(s, event) ==
    CASE event = NCDMODULE_EVENT_UP -> s = SSTATE_CHILD
      [] event = NCDMODULE_EVENT_DOWN -> s = SSTATE_ADULT
      [] event = NCDMODULE_EVENT_DYING -> s = SSTATE_CHILD \/ s = SSTATE_ADULT

Events == {NCDMODULE_EVENT_UP, NCDMODULE_EVENT_DOWN, NCDMODULE_EVENT_DYING}

\* the instance of slot i of process p delivers an event, the modules and
\* the allocator answering with one of R
InstEventAnswering(p, i, event, R) ==
    /\ reactor = "exec"
    /\ InList(p)
    /\ i \in Slots(proc[p])
    /\ MayEmit(St(proc[p], i), event)
    /\ \E res \in R :
         LET w == process_statement_instance_handler_event(World, p, i, event, res)
         IN /\ Commit(w, Event("event", p, i, event))
            /\ midDied' = [midDied EXCEPT ![p] = Holes(w, p, @)]
            /\ scen' = ScenAfter("event", p, i, event, res, w)
    /\ ups' = IF event = NCDMODULE_EVENT_UP /\ i \notin Range(ups[p])
              THEN [ups EXCEPT ![p] = Append(@, i)] ELSE ups
    /\ pc' = pc

InstEvent(p, i, event) == InstEventAnswering(p, i, event, Answers)

\* the instance of slot i of process p reports that it died
InstDied(p, i, is_error) ==
    /\ reactor = "exec"
    /\ InList(p)
    /\ i \in Slots(proc[p])
    /\ St(proc[p], i) # SSTATE_FORGOTTEN
    /\ \E res \in Answers :
         LET P == proc[p]
             w == process_statement_instance_handler_died(World, p, i, is_error, res)
             tail == \A j \in Slots(P) : j > i => St(P, j) = SSTATE_FORGOTTEN
             e == [Event("died", p, i, IF is_error THEN "error" ELSE "clean")
                     EXCEPT !.ordered = (P.statements[i].inst = "ordered"),
                            !.upped = (i \in Range(ups[p])),
                            !.tail = tail,
                            !.last = (i \in Range(ups[p])
                                        => i = ups[p][Len(ups[p])])]
         IN /\ Commit(w, e)
            /\ midDied' = [midDied EXCEPT ![p] =
                              Holes(w, p, IF tail THEN @ ELSE @ \cup {i})]
            /\ scen' = ScenAfter("died", p, i, e.arg, res, w)
    /\ ups' = [ups EXCEPT ![p] = SelectSeq(@, LAMBDA x : x # i)]
    /\ pc' = pc

\* main, lines 278-283: the reactor returned; free what is left
MainExit ==
    /\ reactor = "quit"
    /\ LET w == FreeAll(World)
       IN /\ proc' = w.proc
          /\ processes' = w.processes
          /\ viol' = w.viol
    /\ reactor' = "exited"
    /\ UNCHANGED <<configuration, pc, terminating, ev, calls, ups, midDied, scen>>

Next ==
    \/ ProcessNew
    \/ EnterLoop
    \/ Tick
    \/ Signal
    \/ \E p \in Procs : TimerFire(p)
    \/ \E p \in Procs : \E i \in Slots(proc[p]), event \in Events :
          InstEvent(p, i, event)
    \/ \E p \in Procs : \E i \in Slots(proc[p]), is_error \in BOOLEAN :
          InstDied(p, i, is_error)
    \/ MainExit

Spec == Init /\ [][Next]_vars

\* ------------------------------------------------------- the scenarios
ScenarioConfigurations ==
    Configurations \cup {[p \in Procs |-> IF p = 1 THEN ABC ELSE <<>>]}

ScenarioSpec == InitOn(ScenarioConfigurations) /\ [][Next]_vars

\* the instance of a DYING slot (ordered to die, or having declared it is
\* dying) delivers its died callback
DyingDies ==
    \E p \in Procs : \E i \in Slots(proc[p]), is_error \in BOOLEAN :
        /\ St(proc[p], i) = SSTATE_DYING
        /\ InstDied(p, i, is_error)

\* ENABLED <<DyingDies>>_vars: the reactor runs and a linked process has a
\* DYING slot (the died callback always changes the slot)
DyingEnabled ==
    /\ reactor = "exec"
    /\ \E p \in Procs : InList(p) /\ \E i \in Slots(proc[p]) : St(proc[p], i) = SSTATE_DYING

\* weak fairness of DyingDies, WF_vars(DyingDies), with its ENABLED written
\* out: while there are DYING instances, one of them eventually dies
FairDying == []<>(~DyingEnabled) \/ []<><<DyingDies>>_vars

ShutdownSpec == ScenarioSpec /\ FairDying

\* ------------------------------------------------------------ retry loop
\* ENABLED <<TimerFire(p)>>_vars: the reactor runs and the deadline of the
\* armed timer of process p has passed (the handler always changes the timer)
FireEnabled(p) ==
    /\ reactor = "exec"
    /\ InList(p)
    /\ proc[p].wait_timer = 0

\* the clock goes on
FairClock == WF_vars(Tick)

\* weak fairness of TimerFire(p), WF_vars(TimerFire(p)), with its ENABLED
\* written out: the reactor calls the handler of a timer whose deadline has
\* passed
FairTimer(p) == []<>(~FireEnabled(p)) \/ []<><<TimerFire(p)>>_vars

\* weak fairness of the steps of main before the reactor runs (they are
\* enabled exactly while reactor = "init"): main reaches BReactor_Exec
FairMain == []<>(reactor # "init") \/ []<><<ProcessNew \/ EnterLoop>>_vars

RetrySpec == Spec /\ FairMain /\ FairClock /\ FairTimer(1) /\ FairTimer(2)

\* ---------------------------------------------------------- happy path
\* longest process of the happy path
MaxHappy == 3

\* the statement lists in which every variable reference finds an earlier
\* statement exporting the name
HappyLists ==
    {l \in UNION {[1..n -> Statement] : n \in 0..MaxHappy} :
        \A k \in DOMAIN l : \A a \in DOMAIN l[k].args :
            \E j \in 1..(k - 1) : l[j].name = l[k].args[a].modname}

HappyConfigurations == [Procs -> HappyLists]

\* no shutdown is requested, every Init and GetVar succeeds, instances come
\* UP and emit nothing else
HappyNew == ProcessNewAnswering({"ok"})

HappyUp(p, i) == InstEventAnswering(p, i, NCDMODULE_EVENT_UP, {"ok"})

HappyNext ==
    \/ HappyNew
    \/ EnterLoop
    \/ \E p \in Procs : \E i \in Slots(proc[p]) : HappyUp(p, i)

\* ENABLED <<HappyNext>>_vars: main has not entered the reactor yet, or an
\* instance is initialized and not UP
HappyEnabled ==
    \/ reactor = "init"
    \/ reactor = "exec" /\ \E p \in Procs : InList(p) /\
          \E i \in Slots(proc[p]) : St(proc[p], i) = SSTATE_CHILD

\* weak fairness of HappyNext, WF_vars(HappyNext), with its ENABLED written
\* out: main goes on, and an initialized instance eventually comes UP
FairHappy == []<>(~HappyEnabled) \/ []<><<HappyNext>>_vars

HappySpec == InitOn(HappyConfigurations) /\ [][HappyNext]_vars /\ FairHappy

\* ------------------------------------------------- events after Die
\* The module contract lets an instance emit UP, DOWN or DYING between
\* NCDModuleInst_Die and its died callback: the instance of slot i, ordered
\* to die, delivers an event.  A failed ASSERT ends the program.
InstEventOrdered(p, i, event) ==
    /\ reactor = "exec"
    /\ viol = {}
    /\ InList(p)
    /\ i \in Slots(proc[p])
    /\ proc[p].statements[i].inst = "ordered"
    /\ \E res \in Answers :
         LET w == process_statement_instance_handler_event(World, p, i, event, res)
         IN /\ Commit(w, Event("event", p, i, event))
            /\ midDied' = [midDied EXCEPT ![p] = Holes(w, p, @)]
            /\ scen' = ScenAfter("event", p, i, event, res, w)
    /\ UNCHANGED <<pc, ups>>

ContractNext ==
    \/ viol = {} /\ Next
    \/ \E p \in Procs : \E i \in Slots(proc[p]), event \in Events :
          InstEventOrdered(p, i, event)

ContractSpec == Init /\ [][ContractNext]_vars

\* ------------------------------------------------- variable resolution
\* longest run of statements before a statement with a variable reference
MaxPrefix == 2

\* statements without arguments: exporting "a", exporting "b", unnamed
PrefixStatement == {[name |-> n, args |-> <<>>, known |-> TRUE] : n \in {"a", "b", NoName}}

\* one process: up to MaxPrefix such statements, then a statement that
\* refers to a variable of "a"
ResolveConfigurations ==
    {[p \in Procs |->
        IF p = 1 THEN Append(pre, [name |-> NoName, args |-> <<VarArg("a")>>, known |-> TRUE])
        ELSE <<>>] : pre \in UNION {[1..n -> PrefixStatement] : n \in 0..MaxPrefix}}

\* the modules of a process that is building up: instances come UP and stay
\* UP, Init and GetVar may fail, retries follow the timer
BuildNext ==
    \/ ProcessNew
    \/ EnterLoop
    \/ Tick
    \/ \E p \in Procs : TimerFire(p)
    \/ \E p \in Procs : \E i \in Slots(proc[p]) : InstEvent(p, i, NCDMODULE_EVENT_UP)

BuildSpec == InitOn(ResolveConfigurations) /\ [][BuildNext]_vars

\* ------------------------------------------------------------------ claims
Existing == {p \in Procs : InList(p)}
Live(P, i) == St(P, i) # SSTATE_FORGOTTEN
TimerArmed(P) == P.wait_timer # TimerIdle

\* no ASSERT of the program has failed
AssertsHold == viol = {}

\* C1: after every callback, every existing process has
\* 0 <= AP <= FP <= num_statements.
C1_PointerOrder ==
    \A p \in Existing :
        /\ 0 <= proc[p].ap
        /\ proc[p].ap <= proc[p].fp
        /\ proc[p].fp <= proc[p].num_statements

\* a died callback in a process of the largest size left AP below FP
C1_Witness ==
    /\ ev.kind = "died"
    /\ ev.p \in Existing
    /\ proc[ev.p].num_statements = MaxStatements
    /\ proc[ev.p].ap < proc[ev.p].fp

\* C2: after every callback, every slot below AP-1 is ADULT and slot AP-1
\* is ADULT or CHILD, also after a slot below AP emitted DOWN, DYING or died.
C2_CommittedPrefix ==
    \A p \in Existing : \A i \in Slots(proc[p]) :
        /\ i < proc[p].ap - 1 => St(proc[p], i) = SSTATE_ADULT
        /\ i = proc[p].ap - 1 => St(proc[p], i) \in {SSTATE_ADULT, SSTATE_CHILD}

\* slot 0 emitted DOWN while slot 1 was live: AP fell to 1, slot 0 is the
\* CHILD at AP-1 and slot 1 is being torn down
C2_Witness ==
    /\ ev.kind = "event"
    /\ ev.arg = NCDMODULE_EVENT_DOWN
    /\ ev.i = 0
    /\ ev.p \in Existing
    /\ proc[ev.p].ap = 1
    /\ proc[ev.p].fp = 2

\* C3: after every callback, every slot at or above FP is FORGOTTEN and
\* slot FP-1 is not (FP is the shortest prefix holding every live slot).
C3_ForwardTight ==
    \A p \in Existing :
        /\ \A i \in Slots(proc[p]) : i >= proc[p].fp => ~Live(proc[p], i)
        /\ proc[p].fp > 0 => Live(proc[p], proc[p].fp - 1)

\* a died callback lowered FP past a slot that had died earlier
C3_Witness ==
    /\ ev.kind = "died"
    /\ ev.p \in Existing
    /\ ev.i > 0
    /\ proc[ev.p].fp < ev.i

\* C4 as stated: every slot in [AP, FP) has a live instance and FP is the
\* number of non-FORGOTTEN slots.
C4_Original ==
    \A p \in Existing :
        /\ \A i \in Slots(proc[p]) :
              (proc[p].ap <= i /\ i < proc[p].fp) => Live(proc[p], i)
        /\ proc[p].fp = Cardinality({i \in Slots(proc[p]) : Live(proc[p], i)})

\* C4 as amended: a slot in [AP, FP) is live unless its died callback came
\* while a slot above it was live; such a slot is never the tail FP-1, and
\* FP is the number of live slots plus the number of such slots.
C4_LiveExceptHoles ==
    \A p \in Existing :
        /\ \A i \in Slots(proc[p]) :
              (proc[p].ap <= i /\ i < proc[p].fp) =>
                  \/ Live(proc[p], i)
                  \/ i \in midDied[p] /\ i < proc[p].fp - 1
        /\ proc[p].fp = Cardinality({i \in Slots(proc[p]) : Live(proc[p], i)})
                          + Cardinality(midDied[p])

\* a slot died on its own below a live slot
C4_Witness ==
    \E p \in Existing : \E i \in midDied[p] :
        /\ proc[p].ap <= i
        /\ i < proc[p].fp
        /\ ~Live(proc[p], i)

\* C5 as stated: a slot with have_error set is FORGOTTEN.
C5_Original ==
    \A p \in Existing : \A i \in Slots(proc[p]) :
        proc[p].statements[i].have_error => ~Live(proc[p], i)

\* C6 as stated: the wait timer is armed exactly when AP = FP <
\* num_statements, slot AP has have_error and the program is not terminating.
C6_Original ==
    \A p \in Existing :
        TimerArmed(proc[p]) <=>
            /\ proc[p].ap = proc[p].fp
            /\ proc[p].ap < proc[p].num_statements
            /\ proc[p].statements[proc[p].ap].have_error
            /\ ~terminating

\* C6 as amended: the wait timer is armed exactly when, in addition, slot
\* AP-1 (if any) is ADULT.
C6_ArmedIff ==
    \A p \in Existing :
        TimerArmed(proc[p]) <=>
            /\ proc[p].ap = proc[p].fp
            /\ proc[p].ap < proc[p].num_statements
            /\ proc[p].statements[proc[p].ap].have_error
            /\ ~terminating
            /\ proc[p].ap > 0 => St(proc[p], proc[p].ap - 1) = SSTATE_ADULT

\* slot AP-1 emitted DOWN while the process waited on slot AP: the error is
\* still recorded and the timer is not armed
C6_Witness ==
    /\ ev.kind = "event"
    /\ ev.arg = NCDMODULE_EVENT_DOWN
    /\ ev.p \in Existing
    /\ ~terminating
    /\ proc[ev.p].ap = ev.i + 1
    /\ proc[ev.p].fp = ev.i + 1
    /\ proc[ev.p].ap < proc[ev.p].num_statements
    /\ proc[ev.p].statements[proc[ev.p].ap].have_error
    /\ ~TimerArmed(proc[ev.p])

\* C7: when process_advance initializes slot k, slot k is FORGOTTEN, every
\* slot below k is ADULT and every slot above k is FORGOTTEN; GetVar is
\* called on ADULT instances only (the ASSERT of line 828 holds).
C7_InitOrder ==
    /\ "getvar_adult" \notin viol
    /\ \A n \in DOMAIN calls :
          /\ calls[n].op = "Init" =>
                \A j \in DOMAIN calls[n].states :
                    calls[n].states[j] =
                        IF j < calls[n].i THEN SSTATE_ADULT ELSE SSTATE_FORGOTTEN
          /\ calls[n].op = "GetVar" =>
                /\ calls[n].states[calls[n].i] = SSTATE_ADULT
                /\ \E k \in DOMAIN calls[n].states :
                      /\ k > calls[n].i
                      /\ \A j \in DOMAIN calls[n].states :
                            calls[n].states[j] =
                                IF j < k THEN SSTATE_ADULT ELSE SSTATE_FORGOTTEN

\* slot 1 was initialized after a variable of slot 0 was resolved
C7_Witness ==
    /\ Len(calls) = 2
    /\ calls[1].op = "GetVar" /\ calls[1].i = 0
    /\ calls[2].op = "Init" /\ calls[2].i = 1

\* C8: fight and retreat call Die on slot i only when every slot above i is
\* FORGOTTEN.
C8_DieTailFirst ==
    \A n \in DOMAIN calls :
        calls[n].op = "Die" =>
            \A j \in DOMAIN calls[n].states :
                j > calls[n].i => calls[n].states[j] = SSTATE_FORGOTTEN

\* slot 0 was ordered to die in the died callback of slot 1
C8_Witness ==
    /\ ev.kind = "died"
    /\ ev.i = 1
    /\ \E n \in DOMAIN calls : calls[n].op = "Die" /\ calls[n].i = 0

\* C9 as stated: during shutdown every died callback is for the live
\* instance that came UP last (died callbacks in reverse order of UP).
C9_Original == (terminating /\ ev.kind = "died") => ev.last

\* C9 as amended: a died callback of an instance the core had ordered to
\* die finds every slot above it FORGOTTEN, and the instance is the live
\* one whose first UP came last.
C9_OrderedReverse == (ev.kind = "died" /\ ev.ordered) => (ev.tail /\ ev.last)

\* during shutdown the instance of slot 1, which had come UP and was
\* ordered to die, died while slot 0, which had come UP before it, was live
C9_Witness ==
    /\ terminating
    /\ ev.kind = "died"
    /\ ev.ordered
    /\ ev.upped
    /\ ev.i = 1
    /\ ev.p \in Existing
    /\ 0 \in Range(ups[ev.p])

\* C10: terminating is latched, and a termination signal delivered while
\* terminating changes nothing (no Die, no pointer, no list change, no
\* failed ASSERT).
C10_SignalIdempotent ==
    [][ /\ terminating => terminating'
        /\ (terminating /\ ev'.kind = "signal" /\ ev' # ev) =>
              /\ ev'.arg = "again"
              /\ proc' = proc
              /\ processes' = processes
              /\ reactor' = reactor
              /\ terminating' = terminating
              /\ calls' = <<>>
              /\ viol' = viol ]_vars

\* a second signal arrived while a process was still being torn down
C10_Witness ==
    /\ ev.kind = "signal"
    /\ ev.arg = "again"
    /\ \E p \in Existing : proc[p].fp > 0
\* C11: an Init call for a statement is made only when at least RETRY_TIME
\* has passed since the statement last recorded an error (failed argument
\* resolution, failed Init or died with is_error), whatever other slots did
\* meanwhile.
C11_RetryBounded ==
    \A n \in DOMAIN calls :
        calls[n].op = "Init" => calls[n].age >= RETRY_TIME

\* the timer callback initialized statement 1, which had failed before
C11_Witness ==
    /\ ev.kind = "timer"
    /\ \E n \in DOMAIN calls : calls[n].op = "Init" /\ calls[n].i = 1
    /\ ev.p \in Existing
    /\ proc[ev.p].statements[1].since_error = RETRY_TIME
    /\ proc[ev.p].statements[1].have_error = FALSE
    /\ St(proc[ev.p], 1) = SSTATE_CHILD
\* the statements before statement k of configuration entry p that export
\* the name modname
Exporting(p, k, modname) ==
    {j \in 0..(k - 1) : configuration[p][j + 1].name = modname}

\* C12: when advance builds the arguments of slot k, a reference to modname
\* is resolved (GetVar) on the largest j < k whose exported name is modname;
\* when there is none the advance fails: no module call is made, slot k
\* stays FORGOTTEN with have_error set, and the wait timer is armed.
C12_NearestEarlier ==
    \A n \in DOMAIN calls :
        LET c == calls[n] IN
        /\ c.op = "GetVar" =>
              /\ c.i \in Exporting(c.p, c.k, c.modname)
              /\ \A j \in Exporting(c.p, c.k, c.modname) : j <= c.i
        /\ c.op = "Unresolved" =>
              /\ Exporting(c.p, c.k, c.modname) = {}
              /\ Len(calls) = 1
              /\ c.p \in Existing
              /\ proc[c.p].ap = c.k
              /\ St(proc[c.p], c.k) = SSTATE_FORGOTTEN
              /\ proc[c.p].statements[c.k].have_error
              /\ TimerArmed(proc[c.p])

\* the reference in statement 2 was resolved on statement 1 although
\* statement 0 exports the same name
C12_Witness ==
    /\ \E n \in DOMAIN calls :
          /\ calls[n].op = "GetVar"
          /\ calls[n].k = 2
          /\ calls[n].i = 1
          /\ Exporting(calls[n].p, 2, calls[n].modname) = {0, 1}
\* C13 as stated: the ASSERT at the head of the event handler (line 967)
\* holds at every delivery the module contract allows, events between Die
\* and died included.
C13_Original == "event_pre" \notin viol
\* the process collection is empty and the reactor was asked to quit
TornDown == processes = <<>> /\ reactor \in {"quit", "exited"}

\* C14: once the termination signal arrived, and every DYING instance
\* eventually delivering its died callback, every process is eventually
\* destroyed and the reactor asked to quit; meanwhile the only instance of a
\* process that is ordered to die is its last live one (slot FP-1).
C14_ShutdownTerminates ==
    /\ [](\A p \in Existing : \A i \in Slots(proc[p]) :
            proc[p].statements[i].inst = "ordered" => i = proc[p].fp - 1)
    /\ (terminating ~> TornDown)

\* scenario S6: the signal arrived with A ADULT and B initialized but never
\* UP; retreat ordered B to die
C14_Witness ==
    /\ ev.kind = "signal"
    /\ ev.arg = "first"
    /\ configuration[1] = ABC
    /\ InList(1)
    /\ St(proc[1], 0) = SSTATE_ADULT
    /\ St(proc[1], 1) = SSTATE_DYING
    /\ 1 \notin Range(ups[1])
    /\ Len(calls) = 1
    /\ calls[1].op = "Die" /\ calls[1].i = 1
\* a callback's outcome without the error bookkeeping of the statements
WithoutErrors(w) ==
    [w EXCEPT !.proc = [p \in Procs |->
        [w.proc[p] EXCEPT !.statements = [i \in Slots(w.proc[p]) |->
            [w.proc[p].statements[i] EXCEPT !.have_error = FALSE,
                                            !.error_until = 0,
                                            !.since_error = 0]]]]]

\* C15: once terminating is set, callbacks make no call but Die (no Init, no
\* variable resolution) and no wait timer is armed; a died callback with
\* is_error set leaves everything as a clean one does, except that it
\* records the error on the statement.
C15_NoInitWhileTerminating ==
    terminating =>
        /\ \A n \in DOMAIN calls : calls[n].op = "Die"
        /\ \A p \in Existing : ~TimerArmed(proc[p])
        /\ \A p \in Existing : \A i \in Slots(proc[p]) :
              Live(proc[p], i) =>
                LET we == process_statement_instance_handler_died(World, p, i, TRUE, "ok")
                    wc == process_statement_instance_handler_died(World, p, i, FALSE, "ok")
                IN /\ WithoutErrors(we) = WithoutErrors(wc)
                   /\ InList(p) /\ p \in Range(we.processes)
                         => we.proc[p].statements[i].have_error

\* during the retreat the instance of slot 1 died with an error while slot 0
\* was still to be torn down: the error is recorded, slot 0 is ordered to
\* die and no timer is armed
C15_Witness ==
    /\ terminating
    /\ ev.kind = "died"
    /\ ev.arg = "error"
    /\ ev.i = 1
    /\ ev.p \in Existing
    /\ proc[ev.p].statements[1].have_error
    /\ proc[ev.p].statements[1].error_until > 0
    /\ St(proc[ev.p], 0) = SSTATE_DYING
    /\ ~TimerArmed(proc[ev.p])
\* C16: the reactor has been asked to quit exactly when terminating is set
\* and the process collection is empty: it is asked in the callback that
\* empties the collection under terminating (or in the signal handler when
\* the collection is empty already), and never otherwise.
C16_QuitIffEmpty ==
    /\ reactor \in {"quit", "exited"} <=> (terminating /\ processes = <<>>)
    /\ processes = <<>> =>
          \A p \in Procs : \A i \in Slots(proc[p]) : ~Live(proc[p], i)

\* both configuration entries became processes with statements, and the
\* died callback that destroyed the last of them asked the reactor to quit
C16_Witness ==
    /\ reactor = "quit"
    /\ ev.kind = "died"
    /\ \A p \in Procs : Len(configuration[p]) > 0 /\ configuration[p] # <<UnknownModule>>

\* C17: process_free is called only with AP = 0 and FP = 0 (its ASSERTs
\* hold, from retreat and from the cleanup loop of main): a process leaves
\* the collection only in a signal callback that found all its slots
\* FORGOTTEN or in the died callback of its only live slot, and the cleanup
\* loop finds the collection empty.
C17_FreeOnlyAtZero ==
    /\ [](viol \cap {"free_ap", "free_fp"} = {})
    /\ [][\A p \in Procs : (InList(p) /\ ~InList(p)') =>
            /\ reactor = "exec"
            /\ ev'.kind \in {"signal", "died"}
            /\ \A i \in Slots(proc[p]) :
                  Live(proc[p], i) => (ev'.kind = "died" /\ ev'.p = p /\ ev'.i = i)]_vars

\* main has left the reactor and run its cleanup loop after the died
\* callback of a process's last live statement destroyed the process
C17_Witness ==
    /\ reactor = "exited"
    /\ ev.kind = "died"
    /\ ev.i = 0
    /\ Len(configuration[ev.p]) = MaxStatements
\* the module calls of the last callback, as <<operation, slot>>
Ops == [n \in DOMAIN calls |-> <<calls[n].op, calls[n].i>>]

C19_DyingInMiddle ==
    LET g == scen.s4
        P == proc[g.p]
        Is(a, b, c, ap, fp, ops) ==
            /\ St(P, 0) = a /\ St(P, 1) = b /\ St(P, 2) = c
            /\ P.ap = ap /\ P.fp = fp
            /\ Ops = ops
            /\ P.statements[0].inst = "live"
    IN /\ g.stage = 1 => Is(SSTATE_ADULT, SSTATE_DYING, SSTATE_DYING, 1, 3,
                             <<<<"Die", 2>>>>)
       /\ g.stage = 2 => Is(SSTATE_ADULT, SSTATE_DYING, SSTATE_FORGOTTEN, 1, 2, <<>>)
       /\ g.stage = 3 => /\ Is(SSTATE_ADULT, SSTATE_CHILD, SSTATE_FORGOTTEN, 2, 2,
                                <<<<"GetVar", 0>>, <<"Init", 1>>>>)
                          /\ calls[2].states[1] = SSTATE_FORGOTTEN
                          /\ calls[2].states[2] = SSTATE_FORGOTTEN
       /\ g.stage = 4 => /\ Is(SSTATE_ADULT, SSTATE_ADULT, SSTATE_CHILD, 3, 3,
                                <<<<"Init", 2>>>>)
                          /\ calls[1].states[1] = SSTATE_ADULT
       /\ g.stage = 5 => Is(SSTATE_ADULT, SSTATE_ADULT, SSTATE_ADULT, 3, 3, <<>>)

\* scenario S4 ran to its end: C came UP again
C19_Witness == scen.s4.stage = 5
\* victory: AP = FP = num_statements and every slot ADULT
Victory(p) ==
    /\ InList(p)
    /\ proc[p].ap = proc[p].num_statements
    /\ proc[p].fp = proc[p].num_statements
    /\ \A i \in Slots(proc[p]) : St(proc[p], i) = SSTATE_ADULT

\* C20 (scenario S1): without shutdown, failures, DOWN, DYING or died, and
\* with every initialized instance eventually UP, statements are
\* initialized in index order, each with all its predecessors ADULT and
\* nothing at or above it initialized, and every process eventually reaches
\* victory and stays there.
C20_HappyPath ==
    /\ [](\A n \in DOMAIN calls :
            calls[n].op = "Init" =>
                \A j \in DOMAIN calls[n].states :
                    calls[n].states[j] =
                        IF j < calls[n].i THEN SSTATE_ADULT ELSE SSTATE_FORGOTTEN)
    /\ <>[](\A p \in Procs : Victory(p))

\* [A, B, C] reached victory when C came UP
C20_Witness ==
    /\ configuration[1] = ABC
    /\ Victory(1)
    /\ ev.kind = "event" /\ ev.p = 1 /\ ev.i = 2

\* C22: a process with zero statements is linked and at victory (AP = FP =
\* 0, no timer armed) from its construction step until the termination
\* signal, no module call is ever made on its behalf, and the signal
\* callback destroys it, asking the reactor to quit when no other process
\* is left.
C22_EmptyProcess ==
    \A p \in Procs : configuration[p] = <<>> =>
        /\ (pc > p /\ ~terminating) =>
              /\ Victory(p)
              /\ proc[p].ap = 0 /\ proc[p].fp = 0
              /\ ~TimerArmed(proc[p])
        /\ terminating => ~InList(p)
        /\ \A n \in DOMAIN calls : calls[n].p # p
        /\ (terminating /\ \A q \in Procs \ {p} : ~InList(q)) =>
              reactor \in {"quit", "exited"}

\* the first signal destroyed the empty process 1 while process 2, which
\* has a live statement, stays to be torn down
C22_Witness ==
    /\ ev.kind = "signal"
    /\ ev.arg = "first"
    /\ configuration[1] = <<>>
    /\ ~InList(1)
    /\ InList(2)
    /\ proc[2].fp > 0
    /\ reactor = "exec"

\* C23: after every callback, in every existing process AP < FP implies
\* that slot FP-1 is DYING, and while terminating every existing process
\* with FP > 0 has AP <= FP-1 and slot FP-1 DYING.
C23_TailDying ==
    \A p \in Existing :
        LET P == proc[p] IN
        /\ P.ap < P.fp => St(P, P.fp - 1) = SSTATE_DYING
        /\ (terminating /\ P.fp > 0) =>
              /\ P.ap <= P.fp - 1
              /\ St(P, P.fp - 1) = SSTATE_DYING

\* the tail slot declared itself dying: AP fell below FP and the callback
\* had nothing to order to die
C23_Witness ==
    /\ ev.kind = "event"
    /\ ev.arg = NCDMODULE_EVENT_DYING
    /\ ev.p \in Existing
    /\ ~terminating
    /\ ev.i = proc[ev.p].fp - 1
    /\ proc[ev.p].ap < proc[ev.p].fp
    /\ proc[ev.p].statements[ev.i].inst = "live"
    /\ calls = <<>>

\* C24: NCDModuleInst_Die is called only on an instance whose slot is CHILD
\* or ADULT and that was not ordered to die before; an instance ordered to
\* die stays DYING until its died callback, so Die is called at most once
\* per instance; in scenario S4 the statement B, which declared itself
\* dying, is DYING without having been ordered to die until it dies.
C24_DieOnce ==
    /\ \A n \in DOMAIN calls :
          calls[n].op = "Die" =>
              /\ calls[n].states[calls[n].i] \in {SSTATE_CHILD, SSTATE_ADULT}
              /\ calls[n].inst = "live"
              /\ \A k \in DOMAIN calls :
                    (calls[k].op = "Die" /\ calls[k].p = calls[n].p
                        /\ calls[k].i = calls[n].i) => k = n
    /\ \A p \in Existing : \A i \in Slots(proc[p]) :
          proc[p].statements[i].inst = "ordered" => St(proc[p], i) = SSTATE_DYING
    /\ scen.s4.stage \in {1, 2} =>
          /\ St(proc[scen.s4.p], 1) = SSTATE_DYING
          /\ proc[scen.s4.p].statements[1].inst = "live"

\* scenario S4 after C.died: B is the tail, DYING by its own declaration,
\* and the callback called nothing
C24_Witness ==
    /\ scen.s4.stage = 2
    /\ ev.kind = "died" /\ ev.i = 2
    /\ proc[ev.p].fp = 2
    /\ St(proc[ev.p], 1) = SSTATE_DYING
    /\ proc[ev.p].statements[1].inst = "live"
    /\ calls = <<>>

\* C25: as long as a process's wait timer is armed, and so whenever it
\* fires, AP = FP < num_statements, slot AP has have_error, slot AP-1 (if
\* any) is ADULT and terminating is false; the ASSERTs of process_wait, of
\* process_wait_timer_handler and of process_advance never fail.
C25_TimerFiresInWait ==
    /\ viol \cap {"wait_pre", "timer_pre", "advance_ap_fp", "advance_adult"} = {}
    /\ \A p \in Existing :
          TimerArmed(proc[p]) => (WaitingOk(proc[p]) /\ ~terminating)

\* the timer of a process fired with slot 0 ADULT; the retry of slot 1
\* failed in Init and the timer is armed again
C25_Witness ==
    /\ ev.kind = "timer"
    /\ ev.i = 1
    /\ ev.p \in Existing
    /\ \E n \in DOMAIN calls : calls[n].op = "Init" /\ calls[n].i = 1
    /\ St(proc[ev.p], 0) = SSTATE_ADULT
    /\ St(proc[ev.p], 1) = SSTATE_FORGOTTEN
    /\ proc[ev.p].wait_timer = RETRY_TIME

\* process p waits to retry the statement at AP
Waiting(p) == InList(p) /\ TimerArmed(proc[p])

\* this step is the wait timer of process p firing
Fired(p) ==
    /\ proc[p].wait_timer = 0
    /\ proc'[p].wait_timer # 0
    /\ ev'.kind = "timer"
    /\ ev'.p = p

\* C21: while process p waits to retry slot k = AP, every step that neither
\* requests shutdown nor takes slot k-1 out of ADULT either leaves AP = FP =
\* k with slot k FORGOTTEN, its error recorded and the timer armed (without
\* an attempt on slot k unless the step is the timer firing, which arms the
\* timer for a full RETRY_TIME), or is the timer firing with a successful
\* Init of slot k, which leaves slot k a CHILD, AP = FP = k + 1 and the
\* timer idle; the first signal leaves no timer armed; and, the clock going
\* on and expired timers being served, a process that waits forever has its
\* timer fire again and again.
C21_RetryLoop ==
    /\ [][\A p \in Procs :
            LET P == proc[p]
                Q == proc'[p]
                k == P.ap
            IN /\ (/\ Waiting(p)
                   /\ ~terminating'
                   /\ InList(p)'
                   /\ k > 0 => St(Q, k - 1) = SSTATE_ADULT) =>
                     \/ /\ Q.ap = k /\ Q.fp = k
                        /\ St(Q, k) = SSTATE_FORGOTTEN
                        /\ Q.statements[k].have_error
                        /\ TimerArmed(Q)
                        /\ Fired(p) => Q.wait_timer = RETRY_TIME
                        /\ (~Fired(p) /\ calls' # calls) => ~Attempted(calls', p, k)
                     \/ /\ Fired(p)
                        /\ St(Q, k) = SSTATE_CHILD
                        /\ Q.ap = k + 1 /\ Q.fp = k + 1
                        /\ ~TimerArmed(Q)
                        /\ calls'[Len(calls')].op = "Init"
                        /\ calls'[Len(calls')].i = k
               /\ (Waiting(p) /\ terminating') => ~TimerArmed(Q)]_vars
    /\ \A p \in Procs : <>[]Waiting(p) => []<><<TimerFire(p)>>_vars

\* the timer of a process with slot 0 ADULT fired, the retry of slot 1
\* failed in Init, and the deadline of the next retry has passed
C21_Witness ==
    /\ ev.kind = "timer"
    /\ ev.i = 1
    /\ ev.p \in Existing
    /\ Waiting(ev.p)
    /\ proc[ev.p].ap = 1 /\ proc[ev.p].fp = 1
    /\ St(proc[ev.p], 0) = SSTATE_ADULT
    /\ proc[ev.p].wait_timer = 0
    /\ \E n \in DOMAIN calls : calls[n].op = "Init" /\ calls[n].i = 1
====
